---- MODULE Spec2Model ----
(***************************************************************************)
(* Model of the two DynamoDB reporting scripts of aws-utils:               *)
(*   dynamo_features_rw_report.py        ("rw": read/write report)         *)
(*   dynamodb_features_write_metrics.py  ("wm": write throughput report)   *)
(* Python strings are sequences of one-character strings, Python floats    *)
(* are the exact rationals [n, d] they stand for (all values in the model  *)
(* are dyadic or small enough to be exact in binary64).                    *)
(***************************************************************************)
EXTENDS Integers, Sequences, FiniteSets, TLC

VARIABLES
    script,        \* which script runs: "rw", "wm", or "fn" (a pure function is applied)
    pc,            \* position of the run
    envs,          \* rw: args.envs
    args_tables,   \* args.tables; <<>> is None (nargs="+" never yields an empty list)
    tables,        \* rw: tables; wm: prod_tables
    i,             \* index of the table the collection loop is at
    fetches,       \* history: every aws invocation made so far, in order
    stderr,        \* what was written to the error stream
    exit_status,   \* <<>> while the process runs, then <<its exit status>>
    results,       \* rw: results (dict, in insertion order); wm: table_data
    stdout,        \* the lines printed on standard output
    grand,         \* rw: grand; wm: total_avg_rows, total_peak_rows, total_size_bytes, total_items
    folded,        \* history: the tables added into the totals, in the order of addition
    arg,           \* input of the function applied (specifications over pure functions)
    ret            \* its result

vars == <<script, pc, envs, args_tables, tables, i, fetches, stderr, exit_status,
          results, stdout, grand, folded, arg, ret>>

----------------------------------------------------------------------------
(* Bounds of the model *)

MaxEnvs == 2
MaxTables == 2
MaxDatapoints == 2

----------------------------------------------------------------------------
(* Names *)

prod == <<"p", "r", "o", "d">>
staging == <<"s", "t", "a", "g", "i", "n", "g">>
dev == <<"d", "e", "v">>
other == <<"o", "t", "h", "e", "r">>
production == <<"p", "r", "o", "d", "u", "c", "t", "i", "o", "n">>
dot == <<".">>
tatari_features == <<"t", "a", "t", "a", "r", "i", "_", "f", "e", "a", "t", "u", "r", "e", "s">>
svc_tableA == <<"s", "v", "c", ".", "t", "a", "b", "l", "e", "A">>
name_a == <<"a">>
name_b == <<"b">>

prod_svc_tableA == prod \o dot \o svc_tableA
production_svc_tableA == production \o dot \o svc_tableA

\* Characters in code point order, as Python compares them.
Alphabet == <<".", "A", "_", "a", "b", "c", "d", "e", "f", "g", "h", "i", "l",
              "n", "o", "p", "r", "s", "t", "u", "v">>

Ord(c) == CHOOSE k \in 1..Len(Alphabet) : Alphabet[k] = c

\* str.startswith(prefix)
StartsWith(s, p) == Len(p) <= Len(s) /\ SubSeq(s, 1, Len(p)) = p

\* str.startswith(tuple of prefixes)
StartsWithAny(s, ps) == \E k \in 1..Len(ps) : StartsWith(s, ps[k])

RECURSIVE StrLessFrom(_, _, _)
\* s[k:] < t[k:], the strings being equal before position k
StrLessFrom(s, t, k) ==
    IF k > Len(t) THEN FALSE
    ELSE IF k > Len(s) THEN TRUE
    ELSE IF s[k] = t[k] THEN StrLessFrom(s, t, k + 1)
    ELSE Ord(s[k]) < Ord(t[k])

\* s < t on Python strings: by code point, a proper prefix first
StrLess(s, t) == StrLessFrom(s, t, 1)

\* s[n:]
DropPrefix(s, n) == SubSeq(s, n + 1, Len(s))

RECURSIVE SeqsUpTo(_, _)
\* all sequences over S of length 0..n
SeqsUpTo(S, n) ==
    IF n = 0 THEN {<<>>}
    ELSE LET shorter == SeqsUpTo(S, n - 1)
         IN shorter \cup {Append(q, x) : q \in shorter, x \in S}

NonEmptySeqs(S, n) == SeqsUpTo(S, n) \ {<<>>}

RECURSIVE InsertName(_, _)
\* x placed before the first element greater than it
InsertName(q, x) ==
    IF q = <<>> THEN <<x>>
    ELSE IF StrLess(x, Head(q)) THEN <<x>> \o q
         ELSE <<Head(q)>> \o InsertName(Tail(q), x)

RECURSIVE sorted(_)
\* sorted(q) on a sequence of strings (stable, duplicates kept)
sorted(q) ==
    IF q = <<>> THEN <<>>
    ELSE InsertName(sorted(SubSeq(q, 1, Len(q) - 1)), q[Len(q)])

----------------------------------------------------------------------------
(* Floats as exact rationals *)

RECURSIVE GCD(_, _)
GCD(a, b) == IF b = 0 THEN a ELSE GCD(b, a % b)

Frac(n, d) == LET g == GCD(n, d) IN [n |-> n \div g, d |-> d \div g]

Zero == [n |-> 0, d |-> 1]

FAdd(x, y) ==
    LET l == (x.d \div GCD(x.d, y.d)) * y.d
    IN Frac(x.n * (l \div x.d) + y.n * (l \div y.d), l)

FDivInt(x, k) == Frac(x.n, x.d * k)

FLeq(x, y) == x.n * y.d <= y.n * x.d

FLess(x, y) == x.n * y.d < y.n * x.d

\* math.ceil
Ceil(x) == (x.n + x.d - 1) \div x.d

RECURSIVE Pow10(_)
Pow10(k) == IF k = 0 THEN 1 ELSE 10 * Pow10(k - 1)

RECURSIVE Digits(_, _, _)
\* the first k decimal digits of r/d (r < d) as a number, and what remains
Digits(r, d, k) ==
    IF k = 0 THEN <<0, r>>
    ELSE LET p == Digits(r, d, k - 1)
         IN <<p[1] * 10 + ((p[2] * 10) \div d), (p[2] * 10) % d>>

\* format(x, ".kf"): x rounded to k decimals, ties to even; the result is the
\* printed number in units of 10^-k ("0.0010" is 10 for k = 4)
FmtFixed(x, k) ==
    LET p == Digits(x.n % x.d, x.d, k)
        base == (x.n \div x.d) * Pow10(k) + p[1]
    IN IF 2 * p[2] > x.d \/ (2 * p[2] = x.d /\ base % 2 = 1) THEN base + 1 ELSE base

----------------------------------------------------------------------------
(* The aws command line, as both scripts call it *)

NoTable == [TableSizeBytes |-> 0, ItemCount |-> 0]

\* subprocess.run(cmd, capture_output=True, text=True) of a failing aws command:
\* a non-zero return code, the error on the command's own stderr, nothing on stdout.
AwsError ==
    [returncode |-> 255, stdout |-> "", TableNames |-> <<>>, Table |-> NoTable,
     Datapoints |-> <<>>]

\* a successful command: return code 0 and a JSON document on stdout (its parsed fields)
AwsOk(names, table, datapoints) ==
    [returncode |-> 0, stdout |-> "json", TableNames |-> names, Table |-> table,
     Datapoints |-> datapoints]

\* f"{env}.tatari_features.{name}"
FullName(env, name) == env \o dot \o tatari_features \o dot \o name

\* the tables of the account
AccountTables ==
    {FullName(prod, name_a), FullName(prod, name_b), FullName(staging, name_a),
     prod_svc_tableA}

Injective(q) == \A j, k \in 1..Len(q) : q[j] = q[k] => j = k

\* what list-tables may print: the account's tables, in the order the service lists them
Listings == {q \in SeqsUpTo(AccountTables, MaxTables) : Injective(q)}

ListTablesResponses == {AwsError} \cup {AwsOk(q, NoTable, <<>>) : q \in Listings}

\* the Sum of each datapoint of a get-metric-statistics answer of the read/write report
\* (one period spans the whole window)
SeriesRW == {<<>>, <<256>>, <<256, 768>>}

MetricResponsesRW == {AwsError} \cup {AwsOk(<<>>, NoTable, q) : q \in SeriesRW}

Fetch(op, table, metric, resp) ==
    [op |-> op, table |-> table, metric |-> metric, ok |-> resp.returncode = 0,
     datapoints |-> Len(resp.Datapoints)]

----------------------------------------------------------------------------
(* dynamo_features_rw_report.py *)

EnvTags == {prod, staging, other}
ShortNames == {name_a, name_b}
DefaultEnvs == <<prod, staging, dev>>

\* --envs: the default, or one to MaxEnvs tags
ArgEnvs == {DefaultEnvs} \cup NonEmptySeqs(EnvTags, MaxEnvs)

\* run_aws: the command failed
run_aws_failed(resp) == resp.returncode # 0

\* get_matching_tables
get_matching_tables(TableNames) ==
    LET prefixes == <<prod \o dot \o tatari_features, staging \o dot \o tatari_features,
                      dev \o dot \o tatari_features>>
    IN sorted(SelectSeq(TableNames, LAMBDA t : StartsWithAny(t, prefixes)))

RECURSIVE SumOf(_)
\* sum(dp.get("Sum", 0.0) for dp in data.get("Datapoints", []))
SumOf(datapoints) ==
    IF datapoints = <<>> THEN 0 ELSE Head(datapoints) + SumOf(Tail(datapoints))

\* get_metric
get_metric(resp) == SumOf(resp.Datapoints)

\* sorted(f"{env}.tatari_features.{name}" for env in envs for name in args.tables)
Expand(es, names) ==
    sorted([k \in 1..(Len(es) * Len(names)) |->
               FullName(es[((k - 1) \div Len(names)) + 1], names[((k - 1) % Len(names)) + 1])])

\* (read_cu * 4.0) / (1024 * 1024)
ReadGB(read_cu) == Frac(read_cu * 4, 1024 * 1024)

\* WriteGB with one unit taken for 1 MiB: write_cu / 1024
WriteGBPerMebibyte(write_cu) == Frac(write_cu, 1024)

\* (write_cu * 1.0) / (1024 * 1024)
WriteGB(write_cu) == Frac(write_cu * 1, 1024 * 1024)

Metrics(table, read_cu, write_cu) ==
    [table |-> table, read_cu |-> read_cu, write_cu |-> write_cu,
     read_gb |-> ReadGB(read_cu), write_gb |-> WriteGB(write_cu)]

\* results[table] = {...}: a dict keeps the position of a key it already holds
Put(res, m) ==
    IF \E k \in 1..Len(res) : res[k].table = m.table
    THEN [k \in 1..Len(res) |-> IF res[k].table = m.table THEN m ELSE res[k]]
    ELSE Append(res, m)

RECURSIVE EnvOfBareTag(_, _)
\* EnvOf with the tag matched without its separator: table.startswith(e)
EnvOfBareTag(table, es) ==
    IF es = <<>> THEN other
    ELSE IF StartsWith(table, Head(es)) THEN Head(es)
         ELSE EnvOfBareTag(table, Tail(es))

RECURSIVE EnvOf(_, _)
\* next((e for e in envs if table.startswith(f"{e}.")), "other")
EnvOf(table, es) ==
    IF es = <<>> THEN other
    ELSE IF StartsWith(table, Head(es) \o dot) THEN Head(es)
         ELSE EnvOf(table, Tail(es))

\* groups.setdefault(env, {})[table] = m, for every table of results
Groups(res, es) ==
    [e \in {EnvOf(res[k].table, es) : k \in 1..Len(res)} |->
        SelectSeq(res, LAMBDA m : EnvOf(m.table, es) = e)]

\* group_order = [e for e in (*envs, "other") if e in groups]
group_order(groups, es) == SelectSeq(es \o <<other>>, LAMBDA e : e \in DOMAIN groups)

ZeroTotals == [read_cu |-> 0, write_cu |-> 0, read_gb |-> Zero, write_gb |-> Zero]

\* for k in totals: totals[k] += m[k]
AddInto(totals, m) ==
    [read_cu |-> totals.read_cu + m.read_cu, write_cu |-> totals.write_cu + m.write_cu,
     read_gb |-> FAdd(totals.read_gb, m.read_gb),
     write_gb |-> FAdd(totals.write_gb, m.write_gb)]

RECURSIVE FoldTotals(_, _)
FoldTotals(totals, ms) ==
    IF ms = <<>> THEN totals ELSE FoldTotals(AddInto(totals, Head(ms)), Tail(ms))

\* f"{x:>14,.0f}" if x else '0'
FmtCount(x) == IF x # 0 THEN FmtFixed(Frac(x, 1), 0) ELSE 0

\* f"{x:>10.4f}" if x else '0.0000'
FmtGB(x) == IF x # Zero THEN FmtFixed(x, 4) ELSE 0

\* one table's line of a group
Row(env, m) ==
    LET common_prefix == IF env # other THEN FullName(env, <<>>) ELSE <<>>
        short == IF common_prefix # <<>> THEN DropPrefix(m.table, Len(common_prefix))
                 ELSE m.table
    IN [kind |-> "row", env |-> env, table |-> m.table, short |-> short,
        read_cu |-> FmtCount(m.read_cu), read_gb |-> FmtGB(m.read_gb),
        write_cu |-> FmtCount(m.write_cu), write_gb |-> FmtGB(m.write_gb),
        total_gb |-> FmtGB(FAdd(m.read_gb, m.write_gb))]

\* the SUBTOTAL and GRAND TOTAL lines
TotalLine(kind, env, totals) ==
    [kind |-> kind, env |-> env,
     read_cu |-> FmtFixed(Frac(totals.read_cu, 1), 0), read_gb |-> FmtFixed(totals.read_gb, 4),
     write_cu |-> FmtFixed(Frac(totals.write_cu, 1), 0),
     write_gb |-> FmtFixed(totals.write_gb, 4),
     total_gb |-> FmtFixed(FAdd(totals.read_gb, totals.write_gb), 4)]

\* for table in sorted(env_tables): the metrics of the group in the order of their names
InNameOrder(env_tables) ==
    LET names == sorted([k \in 1..Len(env_tables) |-> env_tables[k].table])
    IN [k \in 1..Len(names) |->
           CHOOSE m \in {env_tables[j] : j \in 1..Len(env_tables)} : m.table = names[k]]

\* the body of "for env in group_order": the section of one group and its subtotal
RenderGroup(env, env_tables) ==
    LET ms == InNameOrder(env_tables)
        env_totals == FoldTotals(ZeroTotals, ms)
    IN [lines |-> <<[kind |-> "group", env |-> env]>>
                  \o [k \in 1..Len(ms) |-> Row(env, ms[k])]
                  \o <<TotalLine("subtotal", env, env_totals)>>,
        env_totals |-> env_totals,
        folded |-> [k \in 1..Len(ms) |-> ms[k].table]]

RECURSIVE RenderGroups(_, _, _)
\* "for env in group_order": the sections printed, the grand totals, the tables folded
RenderGroups(order, groups, acc) ==
    IF order = <<>> THEN acc
    ELSE LET g == RenderGroup(Head(order), groups[Head(order)])
         IN RenderGroups(Tail(order), groups,
                [lines |-> acc.lines \o g.lines,
                 grand |-> AddInto(acc.grand, g.env_totals),
                 folded |-> acc.folded \o g.folded])

InitRW ==
    /\ script = "rw"
    /\ pc = "start"
    /\ envs \in ArgEnvs
    /\ args_tables \in SeqsUpTo(ShortNames, MaxTables)
    /\ Len(envs) * Len(args_tables) <= MaxTables
    /\ tables = <<>>
    /\ i = 1
    /\ fetches = <<>>
    /\ stderr = <<>>
    /\ exit_status = <<>>
    /\ results = <<>>
    /\ stdout = <<>>
    /\ grand = ZeroTotals
    /\ folded = <<>>
    /\ arg = <<>>
    /\ ret = <<>>

\* lines 89-101: the tables to query, expanded from --tables or discovered
RW_Tables ==
    /\ script = "rw" /\ pc = "start"
    /\ \/ /\ args_tables # <<>>
          /\ tables' = Expand(envs, args_tables)
          /\ stderr' = stderr \o <<"Expanding", "Found">>
          /\ pc' = "collect"
          /\ UNCHANGED <<fetches, exit_status>>
       \/ /\ args_tables = <<>>
          /\ \E resp \in ListTablesResponses :
                /\ fetches' = Append(fetches, Fetch("list-tables", <<>>, "", resp))
                /\ IF run_aws_failed(resp)
                   THEN /\ stderr' = stderr \o <<"Fetching", "ERROR">>
                        /\ exit_status' = <<1>>
                        /\ pc' = "aborted"
                        /\ UNCHANGED tables
                   ELSE /\ tables' = get_matching_tables(resp.TableNames)
                        /\ stderr' = stderr \o <<"Fetching", "Found">>
                        /\ pc' = "collect"
                        /\ UNCHANGED exit_status
    /\ UNCHANGED <<script, envs, args_tables, i, results, stdout, grand, folded, arg, ret>>

\* lines 107-121: the body of the collection loop for tables[i]
RW_Collect ==
    /\ script = "rw" /\ pc = "collect" /\ i <= Len(tables)
    /\ LET table == tables[i]
           progress == Append(stderr, "table")
       IN \E rd \in MetricResponsesRW :
            LET f1 == Fetch("get-metric-statistics", table, "ConsumedReadCapacityUnits", rd)
            IN IF run_aws_failed(rd)
               THEN /\ fetches' = Append(fetches, f1)
                    /\ stderr' = Append(progress, "ERROR")
                    /\ exit_status' = <<1>>
                    /\ pc' = "aborted"
                    /\ UNCHANGED <<i, results>>
               ELSE \E wr \in MetricResponsesRW :
                    LET f2 == Fetch("get-metric-statistics", table,
                                    "ConsumedWriteCapacityUnits", wr)
                    IN /\ fetches' = fetches \o <<f1, f2>>
                       /\ IF run_aws_failed(wr)
                          THEN /\ stderr' = Append(progress, "ERROR")
                               /\ exit_status' = <<1>>
                               /\ pc' = "aborted"
                               /\ UNCHANGED <<i, results>>
                          ELSE /\ results' = Put(results,
                                                 Metrics(table, get_metric(rd), get_metric(wr)))
                               /\ i' = i + 1
                               /\ stderr' = progress
                               /\ UNCHANGED <<pc, exit_status>>
    /\ UNCHANGED <<script, envs, args_tables, tables, stdout, grand, folded, arg, ret>>

\* lines 123-200: the report, printed in one pass once every table is collected
RW_Report ==
    /\ script = "rw" /\ pc = "collect" /\ i > Len(tables)
    /\ \E groups \in {Groups(results, envs)} :
       \E r \in {RenderGroups(group_order(groups, envs), groups,
                              [lines |-> <<[kind |-> "banner"]>>, grand |-> ZeroTotals,
                               folded |-> <<>>])} :
          /\ stdout' = stdout \o r.lines
                       \o <<TotalLine("grand", <<>>, r.grand), [kind |-> "notes"]>>
          /\ grand' = r.grand
          /\ folded' = r.folded
    /\ pc' = "done"
    /\ exit_status' = <<0>>
    /\ UNCHANGED <<script, envs, args_tables, tables, i, fetches, stderr, results, arg, ret>>

NextRW == RW_Tables \/ RW_Collect \/ RW_Report

----------------------------------------------------------------------------
(* dynamodb_features_write_metrics.py *)

\* --tables of the throughput script: full table names
TableArgsWM == {FullName(prod, name_a), FullName(staging, name_a)}

\* what describe-table may report: TableSizeBytes and ItemCount
DescribeValues ==
    {[TableSizeBytes |-> 0, ItemCount |-> 0], [TableSizeBytes |-> 2500, ItemCount |-> 1],
     [TableSizeBytes |-> 2048, ItemCount |-> 2], [TableSizeBytes |-> 2500, ItemCount |-> 0]}

DescribeResponses == {AwsError} \cup {AwsOk(<<>>, d, <<>>) : d \in DescribeValues}

\* the Sum of each one-hour datapoint of a get-metric-statistics answer
SeriesWM == {<<>>, <<108000>>, <<0, 108000>>, <<216000, 108000>>}

MetricResponsesWM == {AwsError} \cup {AwsOk(<<>>, NoTable, q) : q \in SeriesWM}

\* JSONDecodeError with the output parsed leniently: json.loads(result.stdout or "{}")
JSONDecodeErrorLenient(resp) == FALSE

\* json.loads(result.stdout) raises json.JSONDecodeError: stdout holds no JSON document
JSONDecodeError(resp) == resp.stdout = ""

\* [t for t in all_tables if t.startswith("prod.")]
prod_tables(all_tables) == SelectSeq(all_tables, LAMBDA t : StartsWith(t, prod \o dot))

\* avg_item_bytes with the division guarded as size_bytes / max(item_count, 1)
avg_item_bytesMax1(size_bytes, item_count) ==
    IF item_count > 0 THEN Frac(size_bytes, item_count) ELSE Frac(size_bytes, 1)

\* size_bytes / item_count if item_count > 0 else 0
avg_item_bytes(size_bytes, item_count) ==
    IF item_count > 0 THEN Frac(size_bytes, item_count) ELSE Zero

RECURSIVE MinOf(_)
\* MaxOf with min() in place of max()
MinOf(datapoints) ==
    IF Len(datapoints) = 1 THEN datapoints[1]
    ELSE LET m == MinOf(Tail(datapoints))
         IN IF Head(datapoints) <= m THEN Head(datapoints) ELSE m

RECURSIVE MaxOf(_)
\* max(dp["Sum"] for dp in datapoints), datapoints not empty
MaxOf(datapoints) ==
    IF Len(datapoints) = 1 THEN datapoints[1]
    ELSE LET m == MaxOf(Tail(datapoints))
         IN IF Head(datapoints) >= m THEN Head(datapoints) ELSE m

\* (sum(dp["Sum"] for dp in datapoints) / len(datapoints)) / 3600, 0 without datapoints
avg_wcu_per_sec(datapoints) ==
    IF datapoints # <<>>
    THEN FDivInt(Frac(SumOf(datapoints), Len(datapoints)), 3600)
    ELSE Zero

\* max(dp["Sum"] for dp in datapoints) / 3600, 0 without datapoints
peak_wcu_per_sec(datapoints) ==
    IF datapoints # <<>> THEN Frac(MaxOf(datapoints), 3600) ELSE Zero

\* wcu_per_item with math.floor in place of math.ceil
wcu_per_itemFloor(avg) ==
    IF FLess(Zero, avg)
    THEN (IF avg.n \div (avg.d * 1024) >= 1 THEN avg.n \div (avg.d * 1024) ELSE 1)
    ELSE 1

\* max(1, math.ceil(avg_item_bytes / 1024)) if avg_item_bytes > 0 else 1
wcu_per_item(avg) ==
    IF FLess(Zero, avg)
    THEN (IF Ceil(FDivInt(avg, 1024)) >= 1 THEN Ceil(FDivInt(avg, 1024)) ELSE 1)
    ELSE 1

\* wcu_per_sec / wcu_per_item if wcu_per_item else 0
write_rows_per_sec(wcu_per_sec, per_item) ==
    IF per_item # 0 THEN FDivInt(wcu_per_sec, per_item) ELSE Zero

\* the dict appended to table_data
TableData(table, d, datapoints) ==
    [table |-> table, size_bytes |-> d.TableSizeBytes, item_count |-> d.ItemCount,
     avg_item_bytes |-> avg_item_bytes(d.TableSizeBytes, d.ItemCount),
     wcu_per_item |-> wcu_per_item(avg_item_bytes(d.TableSizeBytes, d.ItemCount)),
     avg_wcu_per_sec |-> avg_wcu_per_sec(datapoints),
     peak_wcu_per_sec |-> peak_wcu_per_sec(datapoints),
     avg_write_rows_per_sec |->
         write_rows_per_sec(avg_wcu_per_sec(datapoints),
                            wcu_per_item(avg_item_bytes(d.TableSizeBytes, d.ItemCount))),
     peak_write_rows_per_sec |->
         write_rows_per_sec(peak_wcu_per_sec(datapoints),
                            wcu_per_item(avg_item_bytes(d.TableSizeBytes, d.ItemCount)))]

\* SortsBefore without reverse=True
SortsBeforeAscending(t, u) == FLess(t.peak_write_rows_per_sec, u.peak_write_rows_per_sec)

\* the sort key order: t comes before u
SortsBefore(t, u) == FLess(u.peak_write_rows_per_sec, t.peak_write_rows_per_sec)

RECURSIVE InsertData(_, _)
InsertData(q, t) ==
    IF q = <<>> THEN <<t>>
    ELSE IF SortsBefore(t, Head(q)) THEN <<t>> \o q
         ELSE <<Head(q)>> \o InsertData(Tail(q), t)

RECURSIVE SortTableData(_)
\* table_data.sort(key=lambda t: t["peak_write_rows_per_sec"], reverse=True): stable
SortTableData(q) ==
    IF q = <<>> THEN <<>>
    ELSE InsertData(SortTableData(SubSeq(q, 1, Len(q) - 1)), q[Len(q)])

RECURSIVE MaxNameLen(_)
\* max((len(t["table"]) for t in table_data), default=30)
MaxNameLen(q) ==
    IF q = <<>> THEN 30
    ELSE IF Len(q) = 1 THEN Len(q[1].table)
    ELSE LET m == MaxNameLen(Tail(q))
         IN IF Len(Head(q).table) >= m THEN Len(Head(q).table) ELSE m

\* col_w = max(max_name_len + 2, 30)
col_w(q) == IF MaxNameLen(q) + 2 >= 30 THEN MaxNameLen(q) + 2 ELSE 30

ZeroTotalsWM ==
    [total_avg_rows |-> Zero, total_peak_rows |-> Zero, total_size_bytes |-> 0,
     total_items |-> 0]

\* the four "total_... += ..." of the row loop
AddRow(totals, t) ==
    [total_avg_rows |-> FAdd(totals.total_avg_rows, t.avg_write_rows_per_sec),
     total_peak_rows |-> FAdd(totals.total_peak_rows, t.peak_write_rows_per_sec),
     total_size_bytes |-> totals.total_size_bytes + t.size_bytes,
     total_items |-> totals.total_items + t.item_count]

RECURSIVE FoldRows(_, _)
FoldRows(totals, q) ==
    IF q = <<>> THEN totals ELSE FoldRows(AddRow(totals, Head(q)), Tail(q))

\* one table's line of the throughput table
RowWM(t) ==
    [kind |-> "row", table |-> t.table, size_bytes |-> t.size_bytes,
     item_count |-> t.item_count, avg_item_bytes |-> FmtFixed(t.avg_item_bytes, 0),
     wcu_per_item |-> t.wcu_per_item,
     avg_wcu_per_sec |-> FmtFixed(t.avg_wcu_per_sec, 2),
     peak_wcu_per_sec |-> FmtFixed(t.peak_wcu_per_sec, 2),
     avg_write_rows_per_sec |-> FmtFixed(t.avg_write_rows_per_sec, 1),
     peak_write_rows_per_sec |-> FmtFixed(t.peak_write_rows_per_sec, 1)]

\* the TOTAL line
TotalWM(totals) ==
    [kind |-> "total", total_size_bytes |-> totals.total_size_bytes,
     total_items |-> totals.total_items,
     total_avg_rows |-> FmtFixed(totals.total_avg_rows, 1),
     total_peak_rows |-> FmtFixed(totals.total_peak_rows, 1)]

InitWM ==
    /\ script = "wm"
    /\ pc = "start"
    /\ envs = <<>>
    /\ args_tables \in SeqsUpTo(TableArgsWM, MaxTables)
    /\ tables = <<>>
    /\ i = 1
    /\ fetches = <<>>
    /\ stderr = <<>>
    /\ exit_status = <<>>
    /\ results = <<>>
    /\ stdout = <<>>
    /\ grand = ZeroTotalsWM
    /\ folded = <<>>
    /\ arg = <<>>
    /\ ret = <<>>

\* lines 21-34: the tables to query, given by --tables or discovered
WM_Tables ==
    /\ script = "wm" /\ pc = "start"
    /\ \/ /\ args_tables # <<>>
          /\ tables' = args_tables
          /\ stdout' = stdout \o <<[kind |-> "fetching"], [kind |-> "period"]>>
          /\ pc' = "collect"
          /\ UNCHANGED <<fetches, stderr, exit_status>>
       \/ /\ args_tables = <<>>
          /\ \E resp \in ListTablesResponses :
                /\ fetches' = Append(fetches, Fetch("list-tables", <<>>, "", resp))
                /\ IF JSONDecodeError(resp)
                   THEN /\ stderr' = Append(stderr, "Traceback")
                        /\ exit_status' = <<1>>
                        /\ pc' = "aborted"
                        /\ UNCHANGED <<tables, stdout>>
                   ELSE /\ tables' = prod_tables(resp.TableNames)
                        /\ stdout' = stdout \o <<[kind |-> "fetching"], [kind |-> "period"]>>
                        /\ pc' = "collect"
                        /\ UNCHANGED <<stderr, exit_status>>
    /\ UNCHANGED <<script, envs, args_tables, i, results, grand, folded, arg, ret>>

\* lines 38-92: the body of the collection loop for prod_tables[i]
WM_Collect ==
    /\ script = "wm" /\ pc = "collect" /\ i <= Len(tables)
    /\ LET table == tables[i]
       IN \E ds \in DescribeResponses :
            LET f1 == Fetch("describe-table", table, "", ds)
            IN IF JSONDecodeError(ds)
               THEN /\ fetches' = Append(fetches, f1)
                    /\ stderr' = Append(stderr, "Traceback")
                    /\ exit_status' = <<1>>
                    /\ pc' = "aborted"
                    /\ UNCHANGED <<i, results>>
               ELSE \E cw \in MetricResponsesWM :
                    LET f2 == Fetch("get-metric-statistics", table,
                                    "ConsumedWriteCapacityUnits", cw)
                    IN /\ fetches' = fetches \o <<f1, f2>>
                       /\ IF JSONDecodeError(cw)
                          THEN /\ stderr' = Append(stderr, "Traceback")
                               /\ exit_status' = <<1>>
                               /\ pc' = "aborted"
                               /\ UNCHANGED <<i, results>>
                          ELSE /\ results' = Append(results,
                                                    TableData(table, ds.Table, cw.Datapoints))
                               /\ i' = i + 1
                               /\ UNCHANGED <<pc, stderr, exit_status>>
    /\ UNCHANGED <<script, envs, args_tables, tables, stdout, grand, folded, arg, ret>>

\* lines 94-138: the sort and the throughput table, printed in one pass
WM_Report ==
    /\ script = "wm" /\ pc = "collect" /\ i > Len(tables)
    /\ \E table_data \in {SortTableData(results)} :
       \E totals \in {FoldRows(ZeroTotalsWM, table_data)} :
          /\ results' = table_data
          /\ stdout' = stdout \o <<[kind |-> "header", col_w |-> col_w(table_data)]>>
                       \o [k \in 1..Len(table_data) |-> RowWM(table_data[k])]
                       \o <<TotalWM(totals), [kind |-> "notes"]>>
          /\ grand' = totals
          /\ folded' = [k \in 1..Len(table_data) |-> table_data[k].table]
    /\ pc' = "done"
    /\ exit_status' = <<0>>
    /\ UNCHANGED <<script, envs, args_tables, tables, i, fetches, stderr, arg, ret>>

NextWM == WM_Tables \/ WM_Collect \/ WM_Report

----------------------------------------------------------------------------
(* Both scripts *)

Init == InitRW \/ InitWM

Next == NextRW \/ NextWM

Spec == Init /\ [][Next]_vars

----------------------------------------------------------------------------
(* The classification of the read/write report, applied to any name and tag list *)

prod_svc == prod \o dot \o <<"s", "v", "c">>

ClassifyTags == {prod, staging, production, other, prod_svc}

ClassifyNames ==
    {prod_svc_tableA, production_svc_tableA, FullName(staging, name_a),
     other \o dot \o name_a, prod, prod \o dot, name_b}

InitClassify ==
    /\ script = "fn"
    /\ pc = "classify"
    /\ arg \in [table : ClassifyNames,
                envs : {DefaultEnvs} \cup NonEmptySeqs(ClassifyTags, MaxEnvs)]
    /\ ret = <<>>
    /\ envs = <<>> /\ args_tables = <<>> /\ tables = <<>> /\ i = 1 /\ fetches = <<>>
    /\ stderr = <<>> /\ exit_status = <<>> /\ results = <<>> /\ stdout = <<>>
    /\ grand = ZeroTotals /\ folded = <<>>

ApplyClassify ==
    /\ script = "fn" /\ pc = "classify"
    /\ ret' = EnvOf(arg.table, arg.envs)
    /\ pc' = "classified"
    /\ UNCHANGED <<script, envs, args_tables, tables, i, fetches, stderr, exit_status,
                   results, stdout, grand, folded, arg>>

SpecClassify == InitClassify /\ [][ApplyClassify]_vars

----------------------------------------------------------------------------
(* The per-table derivation of the throughput script, applied to any table *)

SizesBytes == {0, 1, 1024, 1025, 2048, 2500, 5000}
ItemCounts == 0..2
WcuSums == {0, 108000}

InitUnits ==
    /\ script = "fn"
    /\ pc = "derive"
    /\ arg \in [Table : [TableSizeBytes : SizesBytes, ItemCount : ItemCounts],
                Datapoints : SeqsUpTo(WcuSums, MaxDatapoints)]
    /\ ret = <<>>
    /\ envs = <<>> /\ args_tables = <<>> /\ tables = <<>> /\ i = 1 /\ fetches = <<>>
    /\ stderr = <<>> /\ exit_status = <<>> /\ results = <<>> /\ stdout = <<>>
    /\ grand = ZeroTotalsWM /\ folded = <<>>

ApplyUnits ==
    /\ script = "fn" /\ pc = "derive"
    /\ ret' = TableData(prod_svc_tableA, arg.Table, arg.Datapoints)
    /\ pc' = "derived"
    /\ UNCHANGED <<script, envs, args_tables, tables, i, fetches, stderr, exit_status,
                   results, stdout, grand, folded, arg>>

SpecUnits == InitUnits /\ [][ApplyUnits]_vars

----------------------------------------------------------------------------
(* The claims *)

One == [n |-> 1, d |-> 1]

RowLines == SelectSeq(stdout, LAMBDA l : l.kind = "row")

RowTables == [k \in 1..Len(RowLines) |-> RowLines[k].table]

\* the name is the tag, then the separator, then anything
TagThenSeparator(t, e) ==
    /\ Len(t) >= Len(e) + 1
    /\ \A j \in 1..Len(e) : t[j] = e[j]
    /\ t[Len(e) + 1] = "."

\* C1: classification returns the first tag, in list order, that the name starts with
\* followed by ".", and "other" when no tag is; with the default tags prod.svc.tableA
\* is classified prod and production.svc.tableA falls into "other".
C1_FirstMatchingTag ==
    pc = "classified" =>
        LET matching == {k \in 1..Len(arg.envs) : TagThenSeparator(arg.table, arg.envs[k])}
        IN /\ matching = {} => ret = other
           /\ matching # {} =>
                 \E k \in matching : (\A j \in matching : k <= j) /\ ret = arg.envs[k]
           /\ (arg.table = prod_svc_tableA /\ arg.envs = DefaultEnvs) => ret = prod
           /\ (arg.table = production_svc_tableA /\ arg.envs = DefaultEnvs) => ret = other

\* two tags match prod.svc.tableA and the first of the list is returned
C1_Witness ==
    /\ pc = "classified"
    /\ arg.table = prod_svc_tableA
    /\ arg.envs = <<prod_svc, prod>>
    /\ ret = prod_svc

\* C2: at the end of a run of the read/write report the grand totals are the sums of
\* the fields over the collected tables, each table counted once, and the grand total
\* GB is the sum of read GB + write GB over the tables.
C2_GrandTotalIsSumOverTables ==
    (script = "rw" /\ pc = "done") =>
        /\ grand = FoldTotals(ZeroTotals, results)
        /\ stdout[Len(stdout) - 1] = TotalLine("grand", <<>>, FoldTotals(ZeroTotals, results))

\* C3: once a fetch has failed it is the last fetch made, the run is aborted with a
\* non-zero exit status and a diagnostic on the error stream, and standard output
\* holds no row, subtotal or total.
C3_FetchFailureAborts ==
    \A k \in 1..Len(fetches) :
        ~fetches[k].ok =>
            /\ k = Len(fetches)
            /\ pc = "aborted"
            /\ exit_status # <<>> /\ exit_status # <<0>>
            /\ stderr # <<>> /\ stderr[Len(stderr)] \in {"ERROR", "Traceback"}
            /\ \A j \in 1..Len(stdout) :
                  stdout[j].kind \notin {"row", "subtotal", "grand", "total"}

\* the throughput script aborted at the metric fetch of its second table
C3_Witness ==
    /\ script = "wm" /\ pc = "aborted"
    /\ Len(fetches) >= 4
    /\ fetches[Len(fetches)].op = "get-metric-statistics"
    /\ ~fetches[Len(fetches)].ok
    /\ exit_status = <<1>>

\* C4 as stated: 1024 write units, and 256 read units, are reported as exactly 1 GB.
C4_OneUnitPerMebibyte ==
    script = "rw" =>
        \A k \in 1..Len(results) :
            /\ results[k].write_cu = 1024 => results[k].write_gb = One
            /\ results[k].read_cu = 256 => results[k].read_gb = One

\* C4, amended: a write unit counts 1 KiB and a read unit 4 KiB, and a GB is 1,048,576
\* KiB, so 1024 write units, and 256 read units, are 1/1024 GB, printed 0.0010.
C4_KiBPerUnit ==
    script = "rw" =>
        /\ \A k \in 1..Len(results) :
              /\ results[k].write_gb.n * (1024 * 1024) = results[k].write_cu * 1 * results[k].write_gb.d
              /\ results[k].read_gb.n * (1024 * 1024) = results[k].read_cu * 4 * results[k].read_gb.d
              /\ results[k].write_cu = 1024 => results[k].write_gb = [n |-> 1, d |-> 1024]
              /\ results[k].read_cu = 256 => results[k].read_gb = [n |-> 1, d |-> 1024]
        /\ \A j \in 1..Len(RowLines) :
              /\ RowLines[j].write_cu = 1024 => RowLines[j].write_gb = 10
              /\ RowLines[j].read_cu = 256 => RowLines[j].read_gb = 10

\* a table with 256 read units and 1024 write units is printed
C4_Witness ==
    /\ script = "rw" /\ pc = "done"
    /\ \E j \in 1..Len(RowLines) :
          RowLines[j].read_cu = 256 /\ RowLines[j].write_cu = 1024 /\ RowLines[j].total_gb = 20

\* C5: units per item is the least whole number >= 1 of KiB that holds the average
\* item (size / items) when the table has items and bytes, and 1 otherwise; each row
\* rate is the unit rate divided by it; 2500 bytes per item cost 3 units, and 30
\* units/s are then 10 rows/s.
C5_UnitsPerItem ==
    pc = "derived" =>
        LET S == arg.Table.TableSizeBytes
            N == arg.Table.ItemCount
            w == ret.wcu_per_item
        IN /\ w >= 1
           /\ (N > 0 /\ S > 0) => (w * 1024 * N >= S /\ (w > 1 => (w - 1) * 1024 * N < S))
           /\ ~(N > 0 /\ S > 0) => w = 1
           /\ ret.avg_write_rows_per_sec.n * ret.avg_wcu_per_sec.d * w
                 = ret.avg_wcu_per_sec.n * ret.avg_write_rows_per_sec.d
           /\ ret.peak_write_rows_per_sec.n * ret.peak_wcu_per_sec.d * w
                 = ret.peak_wcu_per_sec.n * ret.peak_write_rows_per_sec.d
           /\ (S = 2500 /\ N = 1) => w = 3
           /\ (S = 2500 /\ N = 1 /\ ret.avg_wcu_per_sec = [n |-> 30, d |-> 1])
                 => ret.avg_write_rows_per_sec = [n |-> 10, d |-> 1]

\* items of 2500 bytes written at 30 units/s
C5_Witness ==
    /\ pc = "derived"
    /\ arg.Table = [TableSizeBytes |-> 2500, ItemCount |-> 1]
    /\ arg.Datapoints = <<108000>>
    /\ ret.wcu_per_item = 3
    /\ ret.avg_write_rows_per_sec = [n |-> 10, d |-> 1]

\* the fetches made by the step
NewFetches == SubSeq(fetches', Len(fetches) + 1, Len(fetches'))

\* a step whose fetches succeeded does not abort; a table collected from zero
\* datapoints gets zero rates (zero units and bytes), one without items a zero
\* average item size; each step of the loop moves on to the next table, and the
\* step after the last table prints the report
DegenerateStep ==
    /\ (\A k \in 1..Len(NewFetches) : NewFetches[k].ok) =>
          (pc' # "aborted" /\ exit_status' \in {<<>>, <<0>>})
    /\ (pc = "collect" /\ pc' = "collect") => (i <= Len(tables) /\ i' = i + 1)
    /\ (pc = "collect" /\ i > Len(tables)) => pc' = "done"
    /\ (script = "wm" /\ pc = "collect" /\ pc' = "collect") =>
          LET t == results'[Len(results')]
          IN /\ Len(results') = Len(results) + 1
             /\ NewFetches[2].datapoints = 0 =>
                   /\ t.avg_wcu_per_sec = Zero /\ t.peak_wcu_per_sec = Zero
                   /\ t.avg_write_rows_per_sec = Zero /\ t.peak_write_rows_per_sec = Zero
             /\ t.item_count = 0 => t.avg_item_bytes = Zero
    /\ (script = "rw" /\ pc = "collect" /\ pc' = "collect") =>
          \E k \in 1..Len(results') :
             /\ results'[k].table = tables[i]
             /\ NewFetches[1].datapoints = 0 =>
                   (results'[k].read_cu = 0 /\ results'[k].read_gb = Zero)
             /\ NewFetches[2].datapoints = 0 =>
                   (results'[k].write_cu = 0 /\ results'[k].write_gb = Zero)

\* C6: zero datapoints and zero items are no fault: they give zero rates, zero units
\* and bytes and a zero average item size, the run goes on to the next table, only a
\* failed fetch aborts it, and the final report holds a row for every table collected.
C6_DegenerateInputIsZero ==
    /\ [][DegenerateStep]_vars
    /\ [](pc = "aborted" => ~fetches[Len(fetches)].ok)
    /\ [](pc = "done" =>
             \A k \in 1..Len(results) :
                \E j \in 1..Len(RowLines) : RowLines[j].table = results[k].table)

\* the throughput report is printed for a table without items and one without datapoints
C6_Witness ==
    /\ script = "wm" /\ pc = "done"
    /\ \E k \in 1..Len(fetches) :
          fetches[k].op = "get-metric-statistics" /\ fetches[k].ok /\ fetches[k].datapoints = 0
    /\ \E k \in 1..Len(results) : results[k].item_count = 0 /\ results[k].size_bytes > 0
    /\ Len(RowLines) >= 2

\* position of the first section a bucket may take: configured tag order, then "other"
FirstIndex(e) == CHOOSE k \in 1..(Len(envs) + 1) :
                    (envs \o <<other>>)[k] = e /\ \A j \in 1..(k - 1) : (envs \o <<other>>)[j] # e

\* C7: every collected table is printed as a row exactly once, in the section of its
\* bucket ("other" when no tag matches), and the sections follow the configured tag
\* order, then the fallback.
C7_EveryTableRenderedOnce ==
    (script = "rw" /\ pc = "done") =>
        /\ \A k \in 1..Len(results) :
              Cardinality({j \in 1..Len(RowLines) : RowLines[j].table = results[k].table}) = 1
        /\ \A j \in 1..Len(RowLines) :
              /\ \E k \in 1..Len(results) : results[k].table = RowLines[j].table
              /\ TagThenSeparator(RowLines[j].table, RowLines[j].env)
                 \/ (RowLines[j].env = other
                     /\ \A k \in 1..Len(envs) : ~TagThenSeparator(RowLines[j].table, envs[k]))
        /\ LET sections == SelectSeq(stdout, LAMBDA l : l.kind = "group")
           IN \A a, b \in 1..Len(sections) :
                 a < b => FirstIndex(sections[a].env) < FirstIndex(sections[b].env)

\* position of the first occurrence of a table in the list the loop runs over
FirstPosition(t) == CHOOSE k \in 1..Len(tables) : tables[k] = t /\ \A j \in 1..(k - 1) : tables[j] # t

\* C8: no metric of a resource is fetched twice, at the end every resource has had
\* each of its fetches, and resources are fetched in the order of the list.
C8_EachMetricFetchedOnceInOrder ==
    /\ \A j, k \in 1..Len(fetches) :
          (/\ fetches[j].op = fetches[k].op
           /\ fetches[j].table = fetches[k].table
           /\ fetches[j].metric = fetches[k].metric) => j = k
    /\ pc = "done" =>
          \A n \in 1..Len(tables) :
             \E k \in 1..Len(fetches) :
                fetches[k].table = tables[n] /\ fetches[k].metric = "ConsumedWriteCapacityUnits"
    /\ \A j, k \in 1..Len(fetches) :
          (j < k /\ fetches[j].op # "list-tables" /\ fetches[k].op # "list-tables"
           /\ fetches[j].table # fetches[k].table)
             => FirstPosition(fetches[j].table) < FirstPosition(fetches[k].table)

\* C9 as stated: in both reports the rows of a table, and the additions into the
\* totals, are in the order of the names.
C9_RowsSortedByName ==
    pc = "done" =>
        /\ folded = RowTables
        /\ \A j \in 1..(Len(stdout) - 1) :
              (stdout[j].kind = "row" /\ stdout[j + 1].kind = "row")
                 => ~StrLess(stdout[j + 1].table, stdout[j].table)

\* C9, amended: the read/write report prints and folds the tables of each bucket in
\* the order of their names; the throughput report prints and folds its tables by
\* peak rows/s, highest first, whatever their names.
C9_RowsSortedPerReport ==
    pc = "done" =>
        /\ folded = RowTables
        /\ script = "rw" =>
              \A j \in 1..(Len(stdout) - 1) :
                 (stdout[j].kind = "row" /\ stdout[j + 1].kind = "row")
                    => StrLess(stdout[j].table, stdout[j + 1].table)
        /\ script = "wm" =>
              /\ RowTables = [k \in 1..Len(results) |-> results[k].table]
              /\ \A k \in 1..(Len(results) - 1) :
                    FLeq(results[k + 1].peak_write_rows_per_sec, results[k].peak_write_rows_per_sec)

\* the throughput report with the later name first, its peak being the higher
C9_Witness ==
    /\ script = "wm" /\ pc = "done"
    /\ Len(RowLines) = 2
    /\ StrLess(RowLines[2].table, RowLines[1].table)
    /\ FLess(results[2].peak_write_rows_per_sec, results[1].peak_write_rows_per_sec)

\* C10: for every table of the throughput script 0 <= average <= peak, for the unit
\* rate and for the row rate, and the TOTAL of the averages is at most the TOTAL of
\* the peaks.
C10_AverageAtMostPeak ==
    script = "wm" =>
        /\ \A k \in 1..Len(results) :
              /\ FLeq(Zero, results[k].avg_wcu_per_sec)
              /\ FLeq(results[k].avg_wcu_per_sec, results[k].peak_wcu_per_sec)
              /\ FLeq(Zero, results[k].avg_write_rows_per_sec)
              /\ FLeq(results[k].avg_write_rows_per_sec, results[k].peak_write_rows_per_sec)
        /\ FLeq(grand.total_avg_rows, grand.total_peak_rows)
        /\ pc = "done" => stdout[Len(stdout) - 1].total_avg_rows
                             <= stdout[Len(stdout) - 1].total_peak_rows

\* two tables folded, one of them with an average below its peak
C10_Witness ==
    /\ script = "wm" /\ pc = "done"
    /\ Len(results) >= 2
    /\ \E k \in 1..Len(results) :
          FLess(results[k].avg_write_rows_per_sec, results[k].peak_write_rows_per_sec)
    /\ FLess(Zero, grand.total_avg_rows)
    /\ FLess(grand.total_avg_rows, grand.total_peak_rows)

====
